---- MODULE Spec2Model ----
(***************************************************************************)
(* Model of movabro/bnb-master: the registry gateway's pagination          *)
(* (BldRgstHubClient._request_items), the classification helpers and the   *)
(* rule chain AirbnbCheckerRules.run of src/bnb_checker.py, and the batch  *)
(* loop process_and_split_csv of src/bnb_filter.py.                        *)
(*                                                                         *)
(* Text is a sequence of characters.  Every Hangul syllable the code       *)
(* tests for is one character, written here in romanised form:             *)
(*   da ga gu = "다가구"   da se dae = "다세대"   yeon rip = "연립"         *)
(*   a pa teu = "아파트"   dan dok = "단독"   gong dong ju taek = "공동주택" *)
(*   o pi seu tel = "오피스텔"   won rum = "원룸"   da jung ju taek =       *)
(*   "다중주택"   wi beop = "위법"   wi ban = "위반"   cheol geun = "철근"  *)
(*   kon keu ri teu = "콘크리트"   byeok dol = "벽돌"   cheol gol = "철골"  *)
(*   mok = "목"                                                            *)
(* An absent text field and an empty one are both the empty sequence: the  *)
(* code reads every text field as (title.get(k) or "").                    *)
(***************************************************************************)
EXTENDS Integers, Sequences, FiniteSets, TLC

----------------------------------------------------------------------------
(* Text primitives: str.strip(), str.replace(" ", ""), the `in` operator.  *)

SP == " "

RemoveSpaces(s) == SelectSeq(s, LAMBDA c : c # SP)

Strip(s) ==
    LET idx == {i \in 1..Len(s) : s[i] # SP}
    IN  IF idx = {} THEN <<>>
        ELSE LET lo == CHOOSE i \in idx : \A j \in idx : i <= j
                 hi == CHOOSE i \in idx : \A j \in idx : i >= j
             IN  SubSeq(s, lo, hi)

Contains(s, t) ==
    \E i \in 1..(Len(s) - Len(t) + 1) : SubSeq(s, i, i + Len(t) - 1) = t

----------------------------------------------------------------------------
(* Tokens and labels of the classification helpers.                        *)

T_DAGAGU   == <<"da", "ga", "gu">>
T_DASEDAE  == <<"da", "se", "dae">>
T_YEONRIP  == <<"yeon", "rip">>
T_APT      == <<"a", "pa", "teu">>
T_DANDOK   == <<"dan", "dok">>
T_JUTAEK   == <<"ju", "taek">>
T_GONGDONG == <<"gong", "dong", "ju", "taek">>
T_CHEOLGEUN == <<"cheol", "geun">>
T_CONCRETE == <<"kon", "keu", "ri", "teu">>
T_BYEOKDOL == <<"byeok", "dol">>
T_CHEOLGOL == <<"cheol", "gol">>
T_MOK      == <<"mok">>

L_DAGAGU   == T_DAGAGU \o T_JUTAEK
L_DASEDAE  == T_DASEDAE \o T_JUTAEK
L_YEONRIP  == T_YEONRIP \o T_JUTAEK
L_APT      == T_APT
L_DANDOK   == T_DANDOK \o T_JUTAEK
L_UMBRELLA == T_GONGDONG \o <<"(", "se", "bu", "mi", "sang", ")">>
L_UNKNOWN  == <<"mi", "sang">>

HouseLabels ==
    {L_DAGAGU, L_DASEDAE, L_YEONRIP, L_APT, L_DANDOK, L_UMBRELLA, L_UNKNOWN}

ALLOWED_HOUSE_TYPES == {L_DANDOK, L_DAGAGU, L_APT, L_YEONRIP, L_DASEDAE}

DISALLOWED_KEYWORDS ==
    << <<"o", "pi", "seu", "tel">>, <<"won", "rum">>,
       <<"da", "jung", "ju", "taek">>, <<"wi", "beop">>, <<"wi", "ban">> >>

S_UNCONFIRMED == <<"mi", "hwak", "in">>
S_RC    == T_CHEOLGEUN \o T_CONCRETE \o <<"(", "R", "C", ")">>
S_BRICK == T_BYEOKDOL
S_STEEL == T_CHEOLGOL
S_WOOD  == T_MOK \o <<"gu", "jo">>

classify_structure(strct_name) ==
    LET s == RemoveSpaces(strct_name)
    IN  IF s = <<>> THEN S_UNCONFIRMED
        ELSE IF Contains(s, T_CHEOLGEUN) /\ Contains(s, T_CONCRETE) THEN S_RC
        ELSE IF Contains(s, T_BYEOKDOL) THEN S_BRICK
        ELSE IF Contains(s, T_CHEOLGOL) THEN S_STEEL
        ELSE IF Contains(s, T_MOK) THEN S_WOOD
        ELSE strct_name

detect_house_type_apt_first(main_purpose, etc_purpose) ==
    LET hay == RemoveSpaces(main_purpose \o <<SP>> \o etc_purpose)
    IN  IF Contains(hay, T_APT) THEN L_APT
        ELSE IF Contains(hay, T_DAGAGU) THEN L_DAGAGU
        ELSE IF Contains(hay, T_DASEDAE) THEN L_DASEDAE
        ELSE IF Contains(hay, T_YEONRIP) THEN L_YEONRIP
        ELSE IF Contains(hay, T_DANDOK) THEN L_DANDOK
        ELSE IF Contains(main_purpose, T_GONGDONG) THEN L_UMBRELLA
        ELSE L_UNKNOWN

detect_house_type(main_purpose, etc_purpose) ==
    LET hay == RemoveSpaces(main_purpose \o <<SP>> \o etc_purpose)
    IN  IF Contains(hay, T_DAGAGU) THEN L_DAGAGU
        ELSE IF Contains(hay, T_DASEDAE) THEN L_DASEDAE
        ELSE IF Contains(hay, T_YEONRIP) THEN L_YEONRIP
        ELSE IF Contains(hay, T_APT) THEN L_APT
        ELSE IF Contains(hay, T_DANDOK) THEN L_DANDOK
        ELSE IF Contains(main_purpose, T_GONGDONG) THEN L_UMBRELLA
        ELSE L_UNKNOWN

----------------------------------------------------------------------------
(* Optional values.  Optional[int] is None or Some(n).  A float keeps its  *)
(* value in tenths (229.9 is 2299), or is NaN, or is absent.               *)

None    == [some |-> FALSE, v |-> 0]
Some(n) == [some |-> TRUE, v |-> n]

FNone   == [kind |-> "none", v |-> 0]
FNan    == [kind |-> "nan", v |-> 0]
FNum(t) == [kind |-> "num", v |-> t]

(* A raw scalar field of a record: absent, "", text that is no number,     *)
(* the text "nan", or a decimal number given in tenths.                    *)
RawNone  == [kind |-> "none", v |-> 0]
RawBlank == [kind |-> "blank", v |-> 0]
RawJunk  == [kind |-> "junk", v |-> 0]
RawNan   == [kind |-> "nan", v |-> 0]
Raw(n)   == [kind |-> "num", v |-> 10 * n]
RawTenths(t) == [kind |-> "num", v |-> t]

Trunc(t) == IF t >= 0 THEN t \div 10 ELSE -((-t) \div 10)

(* _to_int: None, "" and every exception (int(float("nan")) raises) give   *)
(* None; a number is truncated towards zero.                               *)
to_int(x) ==
    IF x.kind = "num" THEN Some(Trunc(x.v)) ELSE None

(* _to_float: float("nan") does not raise, so "nan" is a known value.      *)
to_float(x) ==
    CASE x.kind = "num" -> FNum(x.v)
      [] x.kind = "nan" -> FNan
      [] OTHER -> FNone

(* Float comparisons against an integer constant; every one is False on    *)
(* NaN.                                                                    *)
FLt(a, k) == a.kind = "num" /\ a.v < 10 * k
FLe(a, k) == a.kind = "num" /\ a.v <= 10 * k
FGt_as_le(a, k) == a.kind = "num" /\ a.v <= 10 * k

FGt(a, k) == a.kind = "num" /\ a.v > 10 * k

(* _parse_yyyymmdd: the raw value is absent, text that is not 8 digits, or *)
(* 8 digits read as year, month, day; datetime.date rejects a wrong date.  *)
DateNone == [kind |-> "none", y |-> 0, m |-> 0, d |-> 0]
DateJunk == [kind |-> "junk", y |-> 0, m |-> 0, d |-> 0]
Ymd(y, m, d) == [kind |-> "digits", y |-> y, m |-> m, d |-> d]

IsLeap(y) == (y % 4 = 0 /\ y % 100 # 0) \/ y % 400 = 0

DaysIn(y, m) ==
    IF m = 2 THEN (IF IsLeap(y) THEN 29 ELSE 28)
    ELSE IF m \in {4, 6, 9, 11} THEN 30 ELSE 31

parse_yyyymmdd(s) ==
    IF s.kind # "digits" THEN [some |-> FALSE, y |-> 0, m |-> 0, d |-> 0]
    ELSE IF s.y >= 1 /\ s.m \in 1..12 /\ s.d >= 1 /\ s.d <= DaysIn(s.y, s.m)
         THEN [some |-> TRUE, y |-> s.y, m |-> s.m, d |-> s.d]
         ELSE [some |-> FALSE, y |-> 0, m |-> 0, d |-> 0]

(* _years_since is None exactly when the date is None.                     *)
years_since_known(d) == d.some

----------------------------------------------------------------------------
(* check_house_type_constraints.  A RuleResult keeps ok, label and detail; *)
(* the detail is either the missing-value sentence or a formatted value,   *)
(* which never contains that sentence.                                     *)

D_MISSING == "missing"
D_VALUE   == "value"

RuleResult(ok, label, detail) == [ok |-> ok, label |-> label, detail |-> detail]

need(present, name) ==
    IF present THEN <<>> ELSE <<RuleResult(FALSE, name, D_MISSING)>>

check_house_type_constraints(house_type, grnd_floors, area_m2, total_units) ==
    LET common ==
            need(grnd_floors.some, "need_grnd_floors")
            \o need(area_m2.kind # "none", "need_area")
            \o (IF Contains(house_type, T_DAGAGU)
                THEN need(total_units.some, "need_total_units") ELSE <<>>)
        gfRule(ok, label) ==
            IF grnd_floors.some THEN <<RuleResult(ok, label, D_VALUE)>> ELSE <<>>
        arRule(ok, label) ==
            IF area_m2.kind # "none" THEN <<RuleResult(ok, label, D_VALUE)>> ELSE <<>>
        tuRule(ok, label) ==
            IF total_units.some THEN <<RuleResult(ok, label, D_VALUE)>> ELSE <<>>
    IN  common \o
        (IF house_type = L_DAGAGU THEN
            gfRule(grnd_floors.v <= 3, "dagagu_floors_le_3")
            \o arRule(FLe(area_m2, 660), "dagagu_area_le_660")
            \o tuRule(total_units.v <= 19, "dagagu_units_le_19")
         ELSE IF house_type = L_DASEDAE THEN
            gfRule(grnd_floors.v <= 4, "dasedae_floors_le_4")
            \o arRule(FLe(area_m2, 660), "dasedae_area_le_660")
         ELSE IF house_type = L_YEONRIP THEN
            gfRule(grnd_floors.v <= 4, "yeonrip_floors_le_4")
            \o arRule(FGt(area_m2, 660), "yeonrip_area_gt_660")
         ELSE IF house_type = L_APT THEN
            gfRule(grnd_floors.v >= 5, "apt_floors_ge_5")
         ELSE IF house_type = L_DANDOK THEN
            <<RuleResult(TRUE, "dandok_no_extra", D_VALUE)>>
         ELSE <<>>)

(* hard_fail = [r for r in rule_results if not r.ok and the missing-value  *)
(* sentence is not in r.detail]                                            *)
hard_fail_any_false(rule_results) ==
    SelectSeq(rule_results, LAMBDA r : ~r.ok)

hard_fail(rule_results) ==
    SelectSeq(rule_results, LAMBDA r : ~r.ok /\ r.detail # D_MISSING)

----------------------------------------------------------------------------
(* AirbnbCheckerRules.run: field extraction.                               *)

P_NO_MAIN == <<"(", "ju", "yong", "do", SP, "eop", "eum", ")">>

OrElse(a, b) == IF a = <<>> THEN b ELSE a

(* viol_yn = str(title.get("violBldYn") or "0").strip(); is_viol = (== "1") *)
is_viol_unstripped(title) == OrElse(title.violBldYn, <<"0">>) = <<"1">>

is_viol(title) == Strip(OrElse(title.violBldYn, <<"0">>)) = <<"1">>

main_purps(title) == OrElse(Strip(title.mainPurpsCdNm), P_NO_MAIN)
etc_purps(title)  == Strip(title.etcPurps)
strct_raw(title)  == Strip(OrElse(title.strctCdNm, title.etcStrct))

(* area_m2: totDongTotArea first, totArea when that one is None.           *)
area_m2(title) ==
    LET a == to_float(title.totDongTotArea)
    IN  IF a.kind = "none" THEN to_float(title.totArea) ELSE a

----------------------------------------------------------------------------
(* Per-floor aggregation of the exclusive-unit rows.                       *)

D_UNKNOWN_DONG  == <<"mi", "sang", "dong">>
F_UNKNOWN_FLOOR == [kind |-> "label", v |-> 0]
BIG_FLOOR == 1000000000

UnitKey(u) ==
    [dong |-> OrElse(Strip(u.dongNm), D_UNKNOWN_DONG),
     flr  |-> IF u.flrNo.some THEN [kind |-> "int", v |-> u.flrNo.v]
              ELSE F_UNKNOWN_FLOOR]

per_floor(expos) ==
    LET keys == {UnitKey(expos[i]) : i \in 1..Len(expos)}
    IN  [k \in keys |-> Cardinality({i \in 1..Len(expos) : UnitKey(expos[i]) = k})]

(* _sort_key: (dong, int(flr) or 10**9, str(flr)).  Dong names in Latin    *)
(* letters sort before the Hangul default name.                            *)
DongRank(d) == IF d = D_UNKNOWN_DONG THEN 1 ELSE 0
FloorInt(f) == IF f.kind = "int" THEN f.v ELSE BIG_FLOOR

SortKeyLe(a, b) ==
    \/ DongRank(a.dong) < DongRank(b.dong)
    \/ /\ DongRank(a.dong) = DongRank(b.dong)
       /\ FloorInt(a.flr) <= FloorInt(b.flr)

units_per_floor(expos) ==
    LET pf == per_floor(expos)
        keys == DOMAIN pf
        n == Cardinality(keys)
        order == CHOOSE f \in [1..n -> keys] :
                    /\ \A i, j \in 1..n : i # j => f[i] # f[j]
                    /\ \A i, j \in 1..n : i < j => SortKeyLe(f[i], f[j])
    IN  [i \in 1..n |-> [dong |-> order[i].dong, floor |-> order[i].flr,
                         unit_count |-> pf[order[i]]]]

RECURSIVE SumCounts(_)
SumCounts(rows) ==
    IF rows = <<>> THEN 0 ELSE Head(rows).unit_count + SumCounts(Tail(rows))

(* total_units_from_expos = sum(unit_count) if units_per_floor else 0      *)
total_units_from_expos_of(expos) == Some(SumCounts(units_per_floor(expos)))

(* Unit-count resolution: hhldCnt -> fmlyCnt -> expos sum -> hoCnt.        *)
resolve_total_units_ho_first(hhld_cnt, fmly_cnt, from_expos, ho_cnt) ==
    IF hhld_cnt.some THEN hhld_cnt
    ELSE IF fmly_cnt.some THEN fmly_cnt
    ELSE IF ho_cnt.some THEN ho_cnt
    ELSE from_expos

resolve_total_units(hhld_cnt, fmly_cnt, from_expos, ho_cnt) ==
    IF hhld_cnt.some THEN hhld_cnt
    ELSE IF fmly_cnt.some THEN fmly_cnt
    ELSE IF from_expos.some THEN from_expos
    ELSE ho_cnt

----------------------------------------------------------------------------
(* The gates of run and the final grading.                                 *)

Ret(code, stage) == [code |-> Some(code), stage |-> stage, raised |-> "none"]
Raise(stage, exc) == [code |-> None, stage |-> stage, raised |-> exc]

bad_hit(title) ==
    LET combined == RemoveSpaces(main_purps(title) \o <<SP>> \o etc_purps(title))
    IN  SelectSeq(DISALLOWED_KEYWORDS, LAMBDA k : Contains(combined, RemoveSpaces(k)))

AREA_LIMIT == 230

area_ok_le(a) == FLe(a, AREA_LIMIT)

area_ok(a) == FLt(a, AREA_LIMIT)

structure_gate_always(require_rc, strct_class) == strct_class = S_RC

structure_gate(require_rc, strct_class) == require_rc => strct_class = S_RC

(* (a >= k) or (b >= k) or (c >= k) over Optional[int] operands, evaluated *)
(* left to right: "T", "F", or "X" when an operand reached is None (the    *)
(* comparison of None with an int raises TypeError).                       *)
RECURSIVE AnyGe(_, _)
AnyGe(cnts, k) ==
    IF cnts = <<>> THEN "F"
    ELSE IF ~Head(cnts).some THEN "X"
    ELSE IF Head(cnts).v >= k THEN "T"
    ELSE AnyGe(Tail(cnts), k)

grade(grnd_floors, ugrnd_floors, hhld_cnt, fmly_cnt, ho_cnt) ==
    LET gf == IF grnd_floors.some THEN grnd_floors.v ELSE 0
        uf == IF ugrnd_floors.some THEN ugrnd_floors.v ELSE 0
        cnts == <<hhld_cnt, fmly_cnt, ho_cnt>>
        eq1 == \E i \in 1..3 : cnts[i].some /\ cnts[i].v = 1
        c2 == IF gf = 1 /\ uf <= 1 THEN AnyGe(cnts, 1) ELSE "F"
        c3 == IF 2 <= gf /\ gf <= 4 /\ uf <= 1 THEN AnyGe(cnts, 2) ELSE "F"
    IN  IF gf >= 2 /\ eq1 THEN Ret(1, "graded")
        ELSE IF c2 = "X" THEN Raise("graded", "TypeError")
        ELSE IF c2 = "T" THEN Ret(2, "graded")
        ELSE IF c3 = "X" THEN Raise("graded", "TypeError")
        ELSE IF c3 = "T" THEN Ret(3, "graded")
        ELSE Ret(4, "graded")

(* Lines 383-541 of run, after both gateway calls: the verdict for a title *)
(* record, the expos total (None when not fetched) and require_rc.         *)
run_rules(title, from_expos, require_rc) ==
    LET grnd_floors == to_int(title.grndFlrCnt)
        ugrnd_floors == to_int(title.ugrndFlrCnt)
        area == area_m2(title)
        hhld_cnt == to_int(title.hhldCnt)
        fmly_cnt == to_int(title.fmlyCnt)
        ho_cnt == to_int(title.hoCnt)
        total_units == resolve_total_units(hhld_cnt, fmly_cnt, from_expos, ho_cnt)
        house_type == detect_house_type(main_purps(title), etc_purps(title))
        rule_results ==
            check_house_type_constraints(house_type, grnd_floors, area, total_units)
        strct_class == classify_structure(strct_raw(title))
        verdict ==
            IF is_viol(title) THEN Ret(0, "illegal")
            ELSE IF house_type \notin ALLOWED_HOUSE_TYPES THEN Ret(0, "category")
            ELSE IF bad_hit(title) # <<>> THEN Ret(0, "keyword")
            ELSE IF area.kind # "none" /\ ~area_ok(area) THEN Ret(0, "area")
            ELSE IF hard_fail(rule_results) # <<>> THEN Ret(0, "table")
            ELSE IF ~structure_gate(require_rc, strct_class) THEN Ret(0, "structure")
            ELSE grade(grnd_floors, ugrnd_floors, hhld_cnt, fmly_cnt, ho_cnt)
    IN  [verdict |-> verdict, total_units |-> total_units,
         house_type |-> house_type,
         rule_results |-> IF verdict.stage \in {"illegal", "category", "keyword", "area"}
                          THEN <<>> ELSE rule_results,
         age_known |-> years_since_known(parse_yyyymmdd(title.useAprDay))]

----------------------------------------------------------------------------
(* Inputs: the title records and exclusive-unit rows the registry returns. *)

MaxUnits == 2

TX_RC_NAME    == T_CHEOLGEUN \o T_CONCRETE \o <<"gu", "jo">>
TX_RC_SPACED  == T_CHEOLGEUN \o <<SP>> \o T_CONCRETE
TX_BRICK_NAME == T_BYEOKDOL \o <<"gu", "jo">>

BaseRecord ==
    [violBldYn |-> <<>>, mainPurpsCdNm |-> L_DANDOK, etcPurps |-> <<>>,
     strctCdNm |-> TX_RC_NAME, etcStrct |-> <<>>, useAprDay |-> DateNone,
     grndFlrCnt |-> Raw(3), ugrndFlrCnt |-> RawNone,
     totDongTotArea |-> RawNone, totArea |-> RawNone,
     hhldCnt |-> Raw(2), fmlyCnt |-> RawNone, hoCnt |-> RawNone]

ViolInputs == {<<>>, <<"0">>, <<"1">>, <<SP, "1">>}

(* <<mainPurpsCdNm, etcPurps>> *)
AllowedPurposeInputs ==
    { <<L_DANDOK, <<>> >>,
      <<L_DANDOK, T_DAGAGU \o <<SP>> \o T_JUTAEK>>,
      <<T_GONGDONG, L_DASEDAE>>,
      <<T_GONGDONG, L_YEONRIP>>,
      <<T_GONGDONG, L_APT>> }

PurposeInputs ==
    AllowedPurposeInputs \cup
    { <<T_GONGDONG, <<>> >>,
      << <<>>, <<>> >>,
      <<L_DANDOK, <<"(", "da", "jung", "ju", "taek", ")">> >> }

(* <<strctCdNm, etcStrct>> *)
StrctInputs ==
    { <<TX_RC_NAME, <<>> >>, << <<>>, TX_RC_SPACED>>,
      <<TX_BRICK_NAME, TX_RC_NAME>>, << <<>>, <<>> >> }

(* <<totDongTotArea, totArea>> *)
AreaInputs ==
    { <<RawNone, RawNone>>, <<RawJunk, Raw(100)>>, <<RawBlank, Raw(700)>>,
      <<RawTenths(2299), Raw(700)>>, <<Raw(230), Raw(100)>>, <<RawNan, Raw(100)>> }

DateInputs == {DateNone, DateJunk, Ymd(2023, 2, 29), Ymd(1990, 3, 15)}

GateRecords ==
    { [BaseRecord EXCEPT !.violBldYn = v, !.mainPurpsCdNm = p[1], !.etcPurps = p[2],
                         !.strctCdNm = s[1], !.etcStrct = s[2],
                         !.totDongTotArea = a[1], !.totArea = a[2],
                         !.grndFlrCnt = g] :
        v \in ViolInputs, p \in PurposeInputs, s \in StrctInputs,
        a \in AreaInputs, g \in {RawNone, Raw(3)} }

DateRecords ==
    { [BaseRecord EXCEPT !.useAprDay = d, !.violBldYn = v] :
        d \in DateInputs, v \in ViolInputs }

TableRecords ==
    { [BaseRecord EXCEPT !.mainPurpsCdNm = p[1], !.etcPurps = p[2],
                         !.grndFlrCnt = g, !.totDongTotArea = a, !.hhldCnt = h] :
        p \in AllowedPurposeInputs,
        g \in {RawNone, Raw(1), Raw(3), Raw(4), Raw(5)},
        a \in {RawNone, Raw(100), RawTenths(2299)},
        h \in {RawNone, Raw(1), RawTenths(199), Raw(20)} }

GradeRecords ==
    { [BaseRecord EXCEPT !.grndFlrCnt = g, !.ugrndFlrCnt = u,
                         !.hhldCnt = h, !.fmlyCnt = f, !.hoCnt = o] :
        g \in {RawNone, RawJunk, Raw(1), RawTenths(29), Raw(4), Raw(5)},
        u \in {RawNone, Raw(1), Raw(2)},
        h \in {RawNone, Raw(0), Raw(1), Raw(2)},
        f \in {RawBlank, Raw(0), Raw(1), Raw(2)},
        o \in {RawNone, RawNan, Raw(0), Raw(1), Raw(2)} }

TitleRecords == GateRecords \cup DateRecords \cup TableRecords \cup GradeRecords

UnitRows ==
    { [dongNm |-> <<>>, flrNo |-> Some(1)],
      [dongNm |-> <<"A">>, flrNo |-> None] }

ExposLists == UNION { [1..n -> UnitRows] : n \in 0..MaxUnits }

----------------------------------------------------------------------------
(* State.                                                                  *)

VARIABLES
    pc,                      \* idle, get_title_info, get_expos_units, done
    require_rc,
    include_units_per_floor,
    title_items,             \* what get_title_info returned
    expos,                   \* what get_expos_units returned
    total_units_from_expos,
    total_units,
    house_type,
    rule_results,
    result,                  \* the code run returned, None when it has not
    stage,                   \* where run returned or raised
    raised,                  \* none, GatewayError, TypeError
    title_calls,
    expos_calls,
    d_pc, d_main, d_etc, d_type,
    p_pc, page_no, all_items, requests, last_item, total_count, p_error,
    b_pc,                    \* off, load, eval, done, crashed
    reader,                  \* the rows csv.DictReader has yielded
    seen_keys,
    unique_addresses,
    duplicate_count,
    eval_idx,                \* the row the evaluation loop is at
    eval_log,                \* the calls of checker.run and how each ended
    classified_data,
    stats,
    total_processed,
    written,                 \* the codes whose output file was written
    b_error

runVars ==
    <<pc, require_rc, include_units_per_floor, title_items, expos,
      total_units_from_expos, total_units, house_type, rule_results, result,
      stage, raised, title_calls, expos_calls>>
detectVars == <<d_pc, d_main, d_etc, d_type>>
pageVars == <<p_pc, page_no, all_items, requests, last_item, total_count, p_error>>
batchVars ==
    <<b_pc, reader, seen_keys, unique_addresses, duplicate_count, eval_idx,
      eval_log, classified_data, stats, total_processed, written, b_error>>
vars == <<runVars, detectVars, pageVars, batchVars>>

RunIdle ==
    /\ pc = "idle"
    /\ require_rc = TRUE
    /\ include_units_per_floor = TRUE
    /\ title_items = <<>>
    /\ expos = <<>>
    /\ total_units_from_expos = None
    /\ total_units = None
    /\ house_type = <<>>
    /\ rule_results = <<>>
    /\ result = None
    /\ stage = "running"
    /\ raised = "none"
    /\ title_calls = 0
    /\ expos_calls = 0

DetectIdle ==
    /\ d_pc = "off"
    /\ d_main = <<>>
    /\ d_etc = <<>>
    /\ d_type = <<>>

PagesIdle ==
    /\ p_pc = "off"
    /\ page_no = 1
    /\ all_items = <<>>
    /\ requests = 0
    /\ last_item = "none"
    /\ total_count = None
    /\ p_error = "none"

----------------------------------------------------------------------------
(* AirbnbCheckerRules.run as a state machine: one step per gateway call.   *)

BatchIdle ==
    /\ b_pc = "off"
    /\ reader = <<>>
    /\ seen_keys = {}
    /\ unique_addresses = <<>>
    /\ duplicate_count = 0
    /\ eval_idx = 1
    /\ eval_log = <<>>
    /\ classified_data = [k \in 0..4 |-> <<>>]
    /\ stats = [k \in 0..4 |-> 0]
    /\ total_processed = 0
    /\ written = {}
    /\ b_error = "none"

Init == RunIdle /\ DetectIdle /\ PagesIdle /\ BatchIdle

(* if include_units_per_floor: expos = self.client.get_expos_units(...)    *)
fetch_units_always(include) == TRUE

fetch_units(include) == include

Finish(title, from_expos) ==
    LET o == run_rules(title, from_expos, require_rc)
    IN  /\ pc' = "done"
        /\ total_units' = o.total_units
        /\ house_type' = o.house_type
        /\ rule_results' = o.rule_results
        /\ result' = o.verdict.code
        /\ stage' = o.verdict.stage
        /\ raised' = o.verdict.raised

Call ==
    /\ pc = "idle"
    /\ \E rc \in BOOLEAN, inc \in BOOLEAN :
          /\ require_rc' = rc
          /\ include_units_per_floor' = inc
    /\ pc' = "get_title_info"
    /\ title_calls' = title_calls + 1
    /\ UNCHANGED <<title_items, expos, total_units_from_expos, total_units,
                   house_type, rule_results, result, stage, raised, expos_calls>>
    /\ UNCHANGED <<detectVars, pageVars, batchVars>>

TitleFail ==
    /\ pc = "get_title_info"
    /\ pc' = "done"
    /\ raised' = "GatewayError"
    /\ stage' = "get_title_info"
    /\ UNCHANGED <<require_rc, include_units_per_floor, title_items, expos,
                   total_units_from_expos, total_units, house_type, rule_results,
                   result, title_calls, expos_calls>>
    /\ UNCHANGED <<detectVars, pageVars, batchVars>>

TitleNotFound ==
    /\ pc = "get_title_info"
    /\ title_items' = <<>>
    /\ pc' = "done"
    /\ result' = Some(0)
    /\ stage' = "notfound"
    /\ UNCHANGED <<require_rc, include_units_per_floor, expos,
                   total_units_from_expos, total_units, house_type, rule_results,
                   raised, title_calls, expos_calls>>
    /\ UNCHANGED <<detectVars, pageVars, batchVars>>

TitleFoundFetchUnits ==
    /\ pc = "get_title_info"
    /\ fetch_units(include_units_per_floor)
    /\ \E r \in TitleRecords : title_items' = <<r>>
    /\ pc' = "get_expos_units"
    /\ expos_calls' = expos_calls + 1
    /\ UNCHANGED <<require_rc, include_units_per_floor, expos,
                   total_units_from_expos, total_units, house_type, rule_results,
                   result, stage, raised, title_calls>>
    /\ UNCHANGED <<detectVars, pageVars, batchVars>>

TitleFoundNoUnits ==
    /\ pc = "get_title_info"
    /\ ~fetch_units(include_units_per_floor)
    /\ \E r \in TitleRecords :
          /\ title_items' = <<r>>
          /\ Finish(r, None)
    /\ UNCHANGED <<require_rc, include_units_per_floor, expos,
                   total_units_from_expos, title_calls, expos_calls>>
    /\ UNCHANGED <<detectVars, pageVars, batchVars>>

ExposFail ==
    /\ pc = "get_expos_units"
    /\ pc' = "done"
    /\ raised' = "GatewayError"
    /\ stage' = "get_expos_units"
    /\ UNCHANGED <<require_rc, include_units_per_floor, title_items, expos,
                   total_units_from_expos, total_units, house_type, rule_results,
                   result, title_calls, expos_calls>>
    /\ UNCHANGED <<detectVars, pageVars, batchVars>>

ExposReturn ==
    /\ pc = "get_expos_units"
    /\ \E rows \in ExposLists :
          /\ expos' = rows
          /\ total_units_from_expos' = total_units_from_expos_of(rows)
          /\ Finish(title_items[1], total_units_from_expos_of(rows))
    /\ UNCHANGED <<require_rc, include_units_per_floor, title_items,
                   title_calls, expos_calls>>
    /\ UNCHANGED <<detectVars, pageVars, batchVars>>

Next ==
    \/ Call
    \/ TitleFail
    \/ TitleNotFound
    \/ TitleFoundFetchUnits
    \/ TitleFoundNoUnits
    \/ ExposFail
    \/ ExposReturn

Spec == Init /\ [][Next]_vars

----------------------------------------------------------------------------
(* Properties of run.                                                      *)

Title == title_items[1]

(* run has ended on a title record with both gateway calls answered.       *)
Evaluated == pc = "done" /\ title_items # <<>> /\ raised # "GatewayError"

Eligible == result.some /\ result.v \in 1..4

(* C1: run never raises because of missing or malformed record fields:     *)
(* whenever the gateway calls succeed, run ends without an exception and   *)
(* with a code in 0..4.                                                    *)
C1_NeverRaises ==
    (pc = "done" /\ raised # "GatewayError")
        => (raised = "none" /\ result.some /\ result.v \in 0..4)

(* C2 as stated: violBldYn == "1" always gives code 0, and a flag that is  *)
(* absent or any value other than "1" never disqualifies at the illegality *)
(* gate.                                                                   *)
C2_Original ==
    Evaluated =>
        /\ Title.violBldYn = <<"1">> => result = Some(0)
        /\ Title.violBldYn # <<"1">> => stage # "illegal"

(* The flag reads "1" once the blanks around it are dropped.               *)
FlagIsOne(v) ==
    \E i \in 1..Len(v) : v[i] = "1" /\ \A j \in 1..Len(v) : j # i => v[j] = SP

(* C2 (amended): a record whose violBldYn is "1", blanks around it         *)
(* ignored, always gives code 0 at the illegality gate, whatever the other *)
(* fields and options; an absent flag or any other value never             *)
(* disqualifies at that gate.                                              *)
C2_IllegalGate ==
    Evaluated =>
        /\ FlagIsOne(Title.violBldYn) => (result = Some(0) /\ stage = "illegal")
        /\ ~FlagIsOne(Title.violBldYn) => stage # "illegal"

C2_Witness ==
    /\ Evaluated
    /\ Title.violBldYn = <<"1">>
    /\ house_type = L_DANDOK
    /\ to_float(Title.totDongTotArea) = FNone /\ to_float(Title.totArea) = FNone
    /\ classify_structure(strct_raw(Title)) = S_RC
    /\ ~require_rc
    /\ result = Some(0)

(* C3: when the title fetch returns no record run returns 0 and never      *)
(* issues the unit fetch; the unit fetch is issued at most once per run,   *)
(* and only with include_units_per_floor set and a title record present.   *)
C3_NotFoundGuard ==
    /\ expos_calls <= 1
    /\ expos_calls = 1 => (include_units_per_floor /\ title_items # <<>>)
    /\ stage = "notfound" =>
          (pc = "done" /\ result = Some(0) /\ raised = "none" /\ expos_calls = 0)
    /\ (pc = "done" /\ title_items = <<>> /\ raised = "none") => stage = "notfound"

C3_Witness ==
    stage = "notfound" /\ include_units_per_floor /\ expos_calls = 0 /\ title_calls = 1

(* C4: the resolved total is the first non-absent of hhldCnt, fmlyCnt, the *)
(* number of unit rows (a source only when the unit detail was fetched),   *)
(* hoCnt, and is absent only when all of them are.                         *)
C4_UnitResolution ==
    Evaluated =>
        LET srcs == <<to_int(Title.hhldCnt), to_int(Title.fmlyCnt),
                      IF include_units_per_floor THEN Some(Len(expos)) ELSE None,
                      to_int(Title.hoCnt)>>
            present == {i \in 1..4 : srcs[i].some}
        IN  IF present = {} THEN total_units = None
            ELSE \E i \in present :
                    /\ \A j \in present : i <= j
                    /\ total_units = srcs[i]

C4_Witness ==
    /\ Evaluated
    /\ include_units_per_floor /\ expos = <<>>
    /\ ~to_int(Title.hhldCnt).some /\ ~to_int(Title.fmlyCnt).some
    /\ to_int(Title.hoCnt) = Some(2)
    /\ total_units = Some(0)

(* The grading table of the specification over Optional[int] values.       *)
RefGrade(grnd, ugrnd, tot, hhld, fmly, ho) ==
    LET gf == IF grnd.some THEN grnd.v ELSE 0
        uf == IF ugrnd.some THEN ugrnd.v ELSE 0
        tu == IF tot.some THEN tot.v ELSE 0
    IN  IF gf >= 2 /\ (hhld = Some(1) \/ fmly = Some(1) \/ ho = Some(1)) THEN 1
        ELSE IF gf = 1 /\ uf <= 1 /\ tu >= 1 THEN 2
        ELSE IF gf >= 2 /\ gf <= 4 /\ uf <= 1 /\ tu >= 2 THEN 3
        ELSE 4

(* C5: a record that passed every gate gets the first matching code of the *)
(* grading table, for every combination of present and absent counts.      *)
C5_Grading ==
    (Evaluated /\ stage = "graded") =>
        /\ raised = "none"
        /\ result = Some(RefGrade(to_int(Title.grndFlrCnt), to_int(Title.ugrndFlrCnt),
                                  total_units, to_int(Title.hhldCnt),
                                  to_int(Title.fmlyCnt), to_int(Title.hoCnt)))

(* The constraint table of the specification: some present value breaks    *)
(* the row of the detected type.                                           *)
RefTableViolated(type, gf, area, tu) ==
    LET areaKnown == area.kind = "num"
    IN  CASE type = L_DAGAGU ->
                \/ gf.some /\ gf.v > 3
                \/ areaKnown /\ area.v > 6600
                \/ tu.some /\ tu.v > 19
          [] type = L_DASEDAE ->
                \/ gf.some /\ gf.v > 4
                \/ areaKnown /\ area.v > 6600
          [] type = L_YEONRIP ->
                \/ gf.some /\ gf.v > 4
                \/ areaKnown /\ area.v <= 6600
          [] type = L_APT -> gf.some /\ gf.v < 5
          [] OTHER -> FALSE

RefArea(t) ==
    IF t.totDongTotArea.kind \in {"num", "nan"} THEN t.totDongTotArea ELSE t.totArea

SoftOutcome(label) ==
    \E i \in 1..Len(rule_results) :
        /\ rule_results[i].label = label
        /\ ~rule_results[i].ok
        /\ rule_results[i].detail = D_MISSING

(* C6: a record that passed the earlier gates is disqualified at the       *)
(* per-housing-type stage exactly when a present value violates the row of *)
(* its type; an absent ground-floor count, area or total-unit count only   *)
(* adds a soft outcome.                                                    *)
C6_TablePolicy ==
    (Evaluated /\ stage \in {"table", "structure", "graded"}) =>
        /\ stage = "table" <=>
              RefTableViolated(house_type, to_int(Title.grndFlrCnt),
                               RefArea(Title), total_units)
        /\ ~to_int(Title.grndFlrCnt).some => SoftOutcome("need_grnd_floors")
        /\ RefArea(Title).kind \notin {"num", "nan"} => SoftOutcome("need_area")
        /\ (house_type = L_DAGAGU /\ ~total_units.some)
              => SoftOutcome("need_total_units")

C6_Witness ==
    /\ Evaluated
    /\ house_type = L_DAGAGU
    /\ ~to_int(Title.grndFlrCnt).some
    /\ RefArea(Title).kind = "none"
    /\ ~total_units.some
    /\ Len(rule_results) = 3
    /\ stage = "graded"
    /\ Eligible

(* C7: a code in 1..4 is returned only when the resolved floor area is     *)
(* absent or strictly below 230; a known area of 230 or more always gives  *)
(* 0; an absent area never disqualifies at the area stage.                 *)
C7_AreaCeiling ==
    Evaluated =>
        LET a == RefArea(Title)
        IN  /\ Eligible => (a.kind \in {"none", "blank", "junk"}
                            \/ (a.kind = "num" /\ a.v < 10 * AREA_LIMIT))
            /\ (a.kind = "num" /\ a.v >= 10 * AREA_LIMIT) => result = Some(0)
            /\ a.kind \in {"none", "blank", "junk"} => stage # "area"

C7_Witness ==
    /\ Evaluated
    /\ house_type = L_DANDOK
    /\ Title.totDongTotArea = RawNone /\ Title.totArea = RawNone
    /\ Eligible

(* C9: without require_rc the outcome does not depend on the structure     *)
(* label; with require_rc a code in 1..4 needs a label holding both the    *)
(* cheol-geun and the concrete token.                                      *)
C9_StructureGate ==
    Evaluated =>
        /\ ~require_rc =>
              \A s \in StrctInputs :
                 LET other == [Title EXCEPT !.strctCdNm = s[1], !.etcStrct = s[2]]
                     v == run_rules(other, total_units_from_expos, FALSE).verdict
                 IN  v.code = result /\ v.raised = raised
        /\ (require_rc /\ Eligible) =>
              /\ Contains(strct_raw(Title), T_CHEOLGEUN)
              /\ Contains(strct_raw(Title), T_CONCRETE)

C9_Witness ==
    /\ Evaluated
    /\ ~require_rc
    /\ Title.strctCdNm = TX_BRICK_NAME
    /\ Eligible

C9_WitnessStrict ==
    /\ Evaluated
    /\ require_rc
    /\ Title.etcStrct = TX_RC_SPACED /\ Title.strctCdNm = <<>>
    /\ Eligible

AreaRuleLabels == {"dagagu_area_le_660", "dasedae_area_le_660"}

(* C13: a record classified as row-house whose floor area is known always  *)
(* gets code 0 (the area must be below 230 at the area stage and above 660 *)
(* in the row-house row), so a row-house is eligible only with its area    *)
(* absent; and the area <= 660 rules of the multi-household and            *)
(* multi-unit rows never fail.                                             *)
C13_RowHouseArea ==
    Evaluated =>
        /\ (house_type = L_YEONRIP /\ RefArea(Title).kind \in {"num", "nan"})
              => (result = Some(0) /\ stage \in {"illegal", "keyword", "area", "table"})
        /\ (house_type = L_YEONRIP /\ Eligible)
              => RefArea(Title).kind \in {"none", "blank", "junk"}
        /\ \A i \in 1..Len(rule_results) :
              rule_results[i].label \in AreaRuleLabels => rule_results[i].ok

C13_Witness ==
    /\ Evaluated
    /\ house_type = L_YEONRIP
    /\ RefArea(Title) = Raw(100)
    /\ to_int(Title.grndFlrCnt) = Some(3)
    /\ stage = "table"
    /\ result = Some(0)
    /\ \E i \in 1..Len(rule_results) :
          rule_results[i].label = "yeonrip_area_gt_660" /\ ~rule_results[i].ok

C13_WitnessAbsentArea ==
    /\ Evaluated
    /\ house_type = L_YEONRIP
    /\ RefArea(Title).kind = "none"
    /\ Eligible

----------------------------------------------------------------------------
(* detect_house_type on its own: every pair of purpose texts built from a  *)
(* main text and up to MaxEtcWords words.                                  *)

MaxEtcWords == 2

MainTexts ==
    { <<>>, L_DANDOK, T_GONGDONG, <<"gong", "dong", SP, "ju", "taek">>,
      <<"da", "ga">>, <<SP>> \o L_APT \o <<SP>>, <<"da", SP, "se", "dae">> }

EtcWords ==
    { <<SP>>, T_DAGAGU, T_DASEDAE, T_YEONRIP, T_APT, T_DANDOK, <<"gu">>,
      T_JUTAEK, T_GONGDONG }

RECURSIVE Flatten(_)
Flatten(ws) == IF ws = <<>> THEN <<>> ELSE Head(ws) \o Flatten(Tail(ws))

EtcTexts == { Flatten(ws) : ws \in UNION { [1..n -> EtcWords] : n \in 0..MaxEtcWords } }

DetectStart ==
    /\ d_pc = "in"
    /\ d_main \in MainTexts
    /\ d_etc \in EtcTexts
    /\ d_type = <<>>

InitDetect == RunIdle /\ DetectStart /\ PagesIdle /\ BatchIdle

Detect ==
    /\ d_pc = "in"
    /\ d_type' = detect_house_type(d_main, d_etc)
    /\ d_pc' = "out"
    /\ UNCHANGED <<d_main, d_etc, runVars, pageVars, batchVars>>

NextDetect == Detect

SpecDetect == InitDetect /\ [][NextDetect]_vars

(* C8: detect_house_type returns one of the 7 labels: the label of the     *)
(* first token, in the order da-ga-gu, da-se-dae, yeon-rip, a-pa-teu,      *)
(* dan-dok, that occurs in the two texts joined with their blanks removed; *)
(* when none occurs, the umbrella label if the main text contains          *)
(* gong-dong-ju-taek, else the unknown label.                              *)
C8_DetectFirstMatch ==
    d_pc = "out" =>
        LET hay == RemoveSpaces(d_main) \o RemoveSpaces(d_etc)
            toks == <<T_DAGAGU, T_DASEDAE, T_YEONRIP, T_APT, T_DANDOK>>
            labels == <<L_DAGAGU, L_DASEDAE, L_YEONRIP, L_APT, L_DANDOK>>
            hits == {i \in 1..5 : Contains(hay, toks[i])}
        IN  /\ d_type \in HouseLabels
            /\ Cardinality(HouseLabels) = 7
            /\ IF hits # {}
               THEN \E i \in hits : (\A j \in hits : i <= j) /\ d_type = labels[i]
               ELSE d_type = (IF Contains(d_main, T_GONGDONG)
                              THEN L_UMBRELLA ELSE L_UNKNOWN)

C8_Witness ==
    /\ d_pc = "out"
    /\ Contains(d_main, T_APT)
    /\ Contains(d_etc, T_DAGAGU)
    /\ d_type = L_DAGAGU

----------------------------------------------------------------------------
(* BldRgstHubClient._request_items: one step per page request.  max_pages  *)
(* is the parameter of that name; a page holds a list of up to MaxPerPage  *)
(* records and reports a totalCount of up to MaxTotal.                     *)

max_pages  == 3
MaxPerPage == 2
MaxTotal   == 4

(* The "item" of a page: empty (None, [] or {}), one record, or a list of  *)
(* n records (n = 0: a list that holds no record).                         *)
PageItems ==
    {[kind |-> "dict", n |-> 1]} \cup {[kind |-> "list", n |-> n] : n \in 0..MaxPerPage}

TotalCounts == {RawNone, RawJunk} \cup {Raw(n) : n \in 1..MaxTotal}

PagesStart ==
    /\ p_pc = "loop"
    /\ page_no = 1
    /\ all_items = <<>>
    /\ requests = 0
    /\ last_item = "none"
    /\ total_count = None
    /\ p_error = "none"

(* if page_no > max_pages: raise RuntimeError("Too many pages ...")        *)
over_cap_late(p) == p > max_pages + 1

over_cap(p) == p > max_pages

(* raise_for_status, the Content-Type test and the resultCode test.        *)
PageError ==
    /\ p_pc = "loop"
    /\ requests' = requests + 1
    /\ p_pc' = "failed"
    /\ p_error' \in {"HTTPError", "ContentType", "APIError"}
    /\ UNCHANGED <<page_no, all_items, last_item, total_count>>
    /\ UNCHANGED <<runVars, detectVars, batchVars>>

(* if not item: break *)
PageEmpty ==
    /\ p_pc = "loop"
    /\ requests' = requests + 1
    /\ last_item' = "empty"
    /\ p_pc' = "returned"
    /\ UNCHANGED <<page_no, all_items, total_count, p_error>>
    /\ UNCHANGED <<runVars, detectVars, batchVars>>

PageNonEmpty ==
    /\ p_pc = "loop"
    /\ requests' = requests + 1
    /\ last_item' = "nonempty"
    /\ \E item \in PageItems, tc \in TotalCounts :
          LET got == all_items \o [i \in 1..item.n |-> page_no]
          IN  /\ all_items' = got
              /\ IF tc.kind = "junk"
                 THEN /\ p_pc' = "failed"
                      /\ p_error' = "ValueError"
                      /\ UNCHANGED <<page_no, total_count>>
                 ELSE LET total == IF tc.kind = "num" THEN Trunc(tc.v) ELSE Len(got)
                      IN  /\ total_count' = Some(total)
                          /\ IF Len(got) >= total
                             THEN /\ p_pc' = "returned"
                                  /\ UNCHANGED <<page_no, p_error>>
                             ELSE /\ page_no' = page_no + 1
                                  /\ IF over_cap(page_no + 1)
                                     THEN p_pc' = "failed" /\ p_error' = "TooManyPages"
                                     ELSE p_pc' = "loop" /\ UNCHANGED p_error
    /\ UNCHANGED <<runVars, detectVars, batchVars>>

InitPages == RunIdle /\ DetectIdle /\ PagesStart /\ BatchIdle

NextPages == PageError \/ PageEmpty \/ PageNonEmpty

SpecPages == InitPages /\ [][NextPages]_vars

(* C10: _request_items issues at most max_pages requests; it returns only  *)
(* after an empty page or with at least the reported total accumulated,    *)
(* and fails on the page cap only after max_pages requests with the total  *)
(* still unreached.                                                        *)
C10_Pagination ==
    /\ requests <= max_pages
    /\ p_pc = "loop" => (requests < max_pages /\ page_no = requests + 1)
    /\ p_pc = "returned" =>
          \/ last_item = "empty"
          \/ total_count.some /\ Len(all_items) >= total_count.v
    /\ (p_pc = "failed" /\ p_error = "TooManyPages") =>
          /\ requests = max_pages
          /\ last_item = "nonempty"
          /\ total_count.some /\ Len(all_items) < total_count.v
    /\ p_pc \in {"loop", "returned", "failed"}

C10_Witness ==
    /\ p_pc = "failed"
    /\ p_error = "TooManyPages"
    /\ requests = max_pages
    /\ Len(all_items) > 0

----------------------------------------------------------------------------
(* process_and_split_csv of src/bnb_filter.py: the loading loop that       *)
(* normalises and de-duplicates the rows, the evaluation loop that calls   *)
(* run once per unique row, and the writing of the output files.           *)
(* The header is taken to hold the four address columns.  A row shorter    *)
(* than the header has None in its missing cells (csv.DictReader's         *)
(* restval); rows longer than the header are not among the inputs.         *)

Cell(s) == [present |-> TRUE, s |-> s]
NoCell  == [present |-> FALSE, s |-> <<>>]

RowOf(sigungu, bjdong, bun, ji) ==
    [sigungu |-> sigungu, bjdong |-> bjdong, bun |-> bun, ji |-> ji]

(* row.get(k, "").strip() raises AttributeError on a None cell.            *)
can_strip(row) ==
    row.sigungu.present /\ row.bjdong.present /\ row.bun.present /\ row.ji.present

JI_ZERO == <<"0", "0", "0", "0">>

(* if not ji: ji = "0000" *)
normalize_ji(ji) == IF ji = <<>> THEN JI_ZERO ELSE ji

(* not (sigungu and bjdong and bun) means the row is skipped.              *)
has_required(sigungu, bjdong, bun) ==
    sigungu # <<>> /\ bjdong # <<>> /\ bun # <<>>

unique_key(row) ==
    <<Strip(row.sigungu.s), Strip(row.bjdong.s), Strip(row.bun.s),
      normalize_ji(Strip(row.ji.s))>>

(* row['지'] = ji: only the lot-sub cell of the row is rewritten.           *)
normalized_row(row) == [row EXCEPT !.ji = Cell(normalize_ji(Strip(row.ji.s)))]

(* The arguments of checker.run for a stored row (lines 97-100).           *)
run_args(row) == <<row.sigungu.s, row.bjdong.s, row.bun.s, row.ji.s>>

(* What the registry answers to one evaluation: title_ok / expos_ok are    *)
(* FALSE when the gateway call raises.                                     *)
BatchTitles ==
    { [BaseRecord EXCEPT !.violBldYn = <<"1">>],
      [BaseRecord EXCEPT !.hhldCnt = Raw(1)],
      [BaseRecord EXCEPT !.grndFlrCnt = Raw(1)],
      BaseRecord,
      [BaseRecord EXCEPT !.grndFlrCnt = Raw(5)],
      [BaseRecord EXCEPT !.grndFlrCnt = Raw(1), !.hhldCnt = RawNone] }

GatewayReplies ==
    { [title_ok |-> FALSE, items |-> <<>>, expos_ok |-> TRUE, expos |-> <<>>],
      [title_ok |-> TRUE, items |-> <<>>, expos_ok |-> TRUE, expos |-> <<>>] }
    \cup
    { [title_ok |-> TRUE, items |-> <<t>>, expos_ok |-> ok, expos |-> <<>>] :
        t \in BatchTitles, ok \in BOOLEAN }

(* run as one call: the verdict for a registry answer.                     *)
run_verdict(reply, rc, include) ==
    IF ~reply.title_ok THEN Raise("get_title_info", "GatewayError")
    ELSE IF reply.items = <<>> THEN Ret(0, "notfound")
    ELSE IF fetch_units(include) /\ ~reply.expos_ok
         THEN Raise("get_expos_units", "GatewayError")
    ELSE run_rules(reply.items[1],
                   IF fetch_units(include)
                   THEN total_units_from_expos_of(reply.expos) ELSE None,
                   rc).verdict

(* 0 "에어비앤비 부적합", 1 "... 적합 가능성 낮음", 2 "... 적합 가능성 있음",       *)
(* 3 "... 적합 가능성 높음", 4 "... 적합 판단 보류", otherwise "알 수 없음".       *)
get_result_description(code) ==
    CASE code = 0 -> "unsuitable"
      [] code = 1 -> "low_chance"
      [] code = 2 -> "possible"
      [] code = 3 -> "high_chance"
      [] code = 4 -> "pending"
      [] OTHER    -> "unknown"

(* f"Error: {str(e)}" *)
error_text(e) == <<"Error", e>>

(* if result_code not in classified_data: result_code = 4 *)
bucket_of(result_code, cd) == IF result_code \in DOMAIN cd THEN result_code ELSE 4

(* row.copy() with the two result columns added.                           *)
result_row(row, code, desc) == [row |-> row, code |-> code, desc |-> desc]

record_result(cd, row, result_code) ==
    LET code == bucket_of(result_code, cd)
    IN  [cd EXCEPT ![code] =
            Append(@, result_row(row, code, get_result_description(code)))]

record_error_dropped(cd, row, e) == cd

(* except Exception as e: the row goes to bucket 4 with the error text.    *)
record_error(cd, row, e) ==
    [cd EXCEPT ![4] = Append(@, result_row(row, 4, error_text(e)))]

----------------------------------------------------------------------------
(* Inputs of the batch: the rows of the CSV file.                          *)

MaxRows == 3

C_SGG  == <<"1">>
C_BJD  == <<"2">>
C_BUN1 == <<"4", "9">>
C_BUN2 == <<"5", "0">>
C_JI1  == <<"0", "0", "0", "1">>

RowInputs ==
    { RowOf(Cell(C_SGG), Cell(C_BJD), Cell(C_BUN1), Cell(<<>>)),
      RowOf(Cell(C_SGG), Cell(C_BJD), Cell(C_BUN1), Cell(JI_ZERO)),
      RowOf(Cell(<<SP>> \o C_SGG), Cell(C_BJD), Cell(C_BUN1), Cell(<<SP>>)),
      RowOf(Cell(C_SGG), Cell(C_BJD), Cell(<<>>), Cell(C_JI1)),
      RowOf(Cell(C_SGG), Cell(C_BJD), Cell(C_BUN2), Cell(C_JI1)),
      RowOf(Cell(C_SGG), Cell(C_BJD), Cell(C_BUN1), Cell(C_JI1)),
      RowOf(Cell(C_SGG), Cell(C_BJD), Cell(C_BUN2), NoCell) }

BatchStart ==
    /\ b_pc = "load"
    /\ reader = <<>>
    /\ seen_keys = {}
    /\ unique_addresses = <<>>
    /\ duplicate_count = 0
    /\ eval_idx = 1
    /\ eval_log = <<>>
    /\ classified_data = [k \in 0..4 |-> <<>>]
    /\ stats = [k \in 0..4 |-> 0]
    /\ total_processed = 0
    /\ written = {}
    /\ b_error = "none"

InitBatch == RunIdle /\ DetectIdle /\ PagesIdle /\ BatchStart

(* One iteration of `for row in reader` whose .strip() calls raise: the    *)
(* exception leaves process_and_split_csv.                                 *)
LoadCrash ==
    /\ b_pc = "load"
    /\ Len(reader) < MaxRows
    /\ \E row \in RowInputs :
          /\ ~can_strip(row)
          /\ reader' = Append(reader, row)
    /\ b_pc' = "crashed"
    /\ b_error' = "AttributeError"
    /\ UNCHANGED <<seen_keys, unique_addresses, duplicate_count, eval_idx,
                   eval_log, classified_data, stats, total_processed, written>>
    /\ UNCHANGED <<runVars, detectVars, pageVars>>

LoadSkip ==
    /\ b_pc = "load"
    /\ Len(reader) < MaxRows
    /\ \E row \in RowInputs :
          /\ can_strip(row)
          /\ ~has_required(Strip(row.sigungu.s), Strip(row.bjdong.s), Strip(row.bun.s))
          /\ reader' = Append(reader, row)
    /\ UNCHANGED <<b_pc, seen_keys, unique_addresses, duplicate_count, eval_idx,
                   eval_log, classified_data, stats, total_processed, written,
                   b_error>>
    /\ UNCHANGED <<runVars, detectVars, pageVars>>

LoadDuplicate ==
    /\ b_pc = "load"
    /\ Len(reader) < MaxRows
    /\ \E row \in RowInputs :
          /\ can_strip(row)
          /\ has_required(Strip(row.sigungu.s), Strip(row.bjdong.s), Strip(row.bun.s))
          /\ unique_key(row) \in seen_keys
          /\ reader' = Append(reader, row)
    /\ duplicate_count' = duplicate_count + 1
    /\ UNCHANGED <<b_pc, seen_keys, unique_addresses, eval_idx, eval_log,
                   classified_data, stats, total_processed, written, b_error>>
    /\ UNCHANGED <<runVars, detectVars, pageVars>>

LoadUnique ==
    /\ b_pc = "load"
    /\ Len(reader) < MaxRows
    /\ \E row \in RowInputs :
          /\ can_strip(row)
          /\ has_required(Strip(row.sigungu.s), Strip(row.bjdong.s), Strip(row.bun.s))
          /\ unique_key(row) \notin seen_keys
          /\ reader' = Append(reader, row)
          /\ seen_keys' = seen_keys \cup {unique_key(row)}
          /\ unique_addresses' = Append(unique_addresses, normalized_row(row))
    /\ UNCHANGED <<b_pc, duplicate_count, eval_idx, eval_log, classified_data,
                   stats, total_processed, written, b_error>>
    /\ UNCHANGED <<runVars, detectVars, pageVars>>

(* The reader is exhausted: the evaluation loop starts.                    *)
LoadEnd ==
    /\ b_pc = "load"
    /\ b_pc' = "eval"
    /\ UNCHANGED <<reader, seen_keys, unique_addresses, duplicate_count, eval_idx,
                   eval_log, classified_data, stats, total_processed, written,
                   b_error>>
    /\ UNCHANGED <<runVars, detectVars, pageVars>>

(* One iteration of the evaluation loop in which run returns.              *)
EvalReturn ==
    /\ b_pc = "eval"
    /\ eval_idx <= Len(unique_addresses)
    /\ \E reply \in GatewayReplies :
          LET row == unique_addresses[eval_idx]
              v == run_verdict(reply, FALSE, TRUE)
              code == bucket_of(v.code.v, classified_data)
          IN  /\ v.raised = "none"
              /\ eval_log' = Append(eval_log,
                     [args |-> run_args(row), code |-> v.code, raised |-> v.raised])
              /\ classified_data' = record_result(classified_data, row, v.code.v)
              /\ stats' = [stats EXCEPT ![code] = @ + 1]
    /\ total_processed' = total_processed + 1
    /\ eval_idx' = eval_idx + 1
    /\ UNCHANGED <<b_pc, reader, seen_keys, unique_addresses, duplicate_count,
                   written, b_error>>
    /\ UNCHANGED <<runVars, detectVars, pageVars>>

(* One iteration of the evaluation loop in which run raises.               *)
EvalRaise ==
    /\ b_pc = "eval"
    /\ eval_idx <= Len(unique_addresses)
    /\ \E reply \in GatewayReplies :
          LET row == unique_addresses[eval_idx]
              v == run_verdict(reply, FALSE, TRUE)
          IN  /\ v.raised # "none"
              /\ eval_log' = Append(eval_log,
                     [args |-> run_args(row), code |-> v.code, raised |-> v.raised])
              /\ classified_data' = record_error(classified_data, row, v.raised)
    /\ stats' = [stats EXCEPT ![4] = @ + 1]
    /\ eval_idx' = eval_idx + 1
    /\ UNCHANGED <<b_pc, reader, seen_keys, unique_addresses, duplicate_count,
                   total_processed, written, b_error>>
    /\ UNCHANGED <<runVars, detectVars, pageVars>>

(* After the loop: one file per bucket that is not empty.                  *)
WriteFiles ==
    /\ b_pc = "eval"
    /\ eval_idx > Len(unique_addresses)
    /\ written' = {code \in DOMAIN classified_data : Len(classified_data[code]) > 0}
    /\ b_pc' = "done"
    /\ UNCHANGED <<reader, seen_keys, unique_addresses, duplicate_count, eval_idx,
                   eval_log, classified_data, stats, total_processed, b_error>>
    /\ UNCHANGED <<runVars, detectVars, pageVars>>

NextBatch ==
    \/ LoadCrash
    \/ LoadSkip
    \/ LoadDuplicate
    \/ LoadUnique
    \/ LoadEnd
    \/ EvalReturn
    \/ EvalRaise
    \/ WriteFiles

SpecBatch == InitBatch /\ [][NextBatch]_vars

----------------------------------------------------------------------------
(* Properties of the batch.                                                *)

BatchEnded == b_pc \in {"done", "crashed"}

AfterLoop == b_pc \in {"eval", "done"} /\ eval_idx > Len(unique_addresses)

(* The keys run was called with, in call order.                            *)
EvaluatedKeys ==
    [i \in 1..Len(eval_log) |->
        <<Strip(eval_log[i].args[1]), Strip(eval_log[i].args[2]),
          Strip(eval_log[i].args[3]), eval_log[i].args[4]>>]

(* The text of a cell as the input file holds it: a missing cell holds no  *)
(* text.                                                                   *)
RefText(c) == IF c.present THEN Strip(c.s) ELSE <<>>

RefKey(row) ==
    <<RefText(row.sigungu), RefText(row.bjdong), RefText(row.bun),
      IF RefText(row.ji) = <<>> THEN JI_ZERO ELSE RefText(row.ji)>>

RefComplete(row) ==
    RefText(row.sigungu) # <<>> /\ RefText(row.bjdong) # <<>> /\ RefText(row.bun) # <<>>

RECURSIVE RefDedupFrom(_, _)
RefDedupFrom(rs, acc) ==
    IF rs = <<>> THEN acc
    ELSE LET k == RefKey(Head(rs))
             is_new == RefComplete(Head(rs)) /\ \A i \in 1..Len(acc) : acc[i] # k
         IN  RefDedupFrom(Tail(rs), IF is_new THEN Append(acc, k) ELSE acc)

(* The distinct normalised keys of the complete rows, by first occurrence. *)
RefDedup(rs) == RefDedupFrom(rs, <<>>)

(* C11: once the batch has ended, the keys evaluated are exactly the       *)
(* distinct normalised keys (blank lot-sub as "0000") of the input rows    *)
(* that have the three required fields, each once and in first-occurrence  *)
(* order; rows lacking a required field are not evaluated.                 *)
C11_Dedup == BatchEnded => EvaluatedKeys = RefDedup(reader)

(* The same statement for the batches whose loading loop completes.        *)
DedupWhenLoaded == b_pc = "done" => EvaluatedKeys = RefDedup(reader)

DedupWhenLoaded_Witness ==
    /\ b_pc = "done"
    /\ Len(reader) = 3
    /\ reader[1].ji = Cell(<<>>)
    /\ reader[2].ji = Cell(JI_ZERO)
    /\ reader[2].bun = reader[1].bun
    /\ ~RefComplete(reader[3])
    /\ Len(eval_log) = 1
    /\ duplicate_count = 1

BucketSizes ==
    Len(classified_data[0]) + Len(classified_data[1]) + Len(classified_data[2])
        + Len(classified_data[3]) + Len(classified_data[4])

(* Where a row is among the buckets: <<code, position>>.                   *)
Places(row) ==
    UNION { { <<k, j>> : j \in {n \in 1..Len(classified_data[k]) :
                                   classified_data[k][n].row = row} } :
            k \in DOMAIN classified_data }

InBucket(k, rr) ==
    \E j \in 1..Len(classified_data[k]) : classified_data[k][j] = rr

(* C12: an evaluation that raises puts its row in bucket 4 with the error  *)
(* text and the loop goes on to every later row; after the loop every      *)
(* unique row is in exactly one of the buckets 0..4, the bucket sizes sum  *)
(* to the number of unique rows, and every row carries the code of the     *)
(* bucket it is in.                                                        *)
C12_ErrorTolerance ==
    /\ \A i \in 1..Len(eval_log) :
          /\ eval_log[i].args = run_args(unique_addresses[i])
          /\ eval_log[i].raised # "none" =>
                InBucket(4, result_row(unique_addresses[i], 4,
                                       error_text(eval_log[i].raised)))
          /\ eval_log[i].raised = "none" =>
                InBucket(eval_log[i].code.v,
                         result_row(unique_addresses[i], eval_log[i].code.v,
                                    get_result_description(eval_log[i].code.v)))
    /\ \A k \in DOMAIN classified_data : \A j \in 1..Len(classified_data[k]) :
          classified_data[k][j].code = k
    /\ b_pc \in {"eval", "done"} => Len(eval_log) = eval_idx - 1
    /\ AfterLoop =>
          /\ Len(eval_log) = Len(unique_addresses)
          /\ BucketSizes = Len(unique_addresses)
          /\ \A i \in 1..Len(unique_addresses) :
                Cardinality(Places(unique_addresses[i])) = 1

C12_Witness ==
    /\ b_pc = "done"
    /\ Len(unique_addresses) = 3
    /\ eval_log[1].raised = "TypeError"
    /\ eval_log[2].raised = "GatewayError"
    /\ eval_log[3].code = Some(3)
    /\ Len(classified_data[4]) = 2
    /\ Len(classified_data[3]) = 1
    /\ written = {3, 4}

====
